---- MODULE Spec2Model ----
(***************************************************************************)
(* Sharded client-side pagination: the worker's partitioner and locator    *)
(* (data-worker.worker.ts), the IndexedDB gateway (DataStorageService) and *)
(* the pagination controller (GroupedInputComponent).                      *)
(***************************************************************************)
EXTENDS Integers, Sequences, FiniteSets, TLC

VARIABLES
    groups,        \* the dataset: InputGroup[] handed to the worker / the service
    shardSize,     \* the dataset's shard size
    workerQueue,   \* message events waiting for the worker's 'message' listener
    handled,       \* the event data the listener has last run on (NoMsg: none yet)
    posted,        \* results the listener passed to postMessage for that event
    store,         \* the 'input-shards' object store: shardId -> Shard
    addLog,        \* the shards passed to addShard so far, in call order
    got,           \* <<[key, value]>>: the last getShard call and what it returned
    ingest,        \* DataStorageService.shardData: where its one call stands
    currentPage,   \* GroupedInputComponent.currentPage
    rowsPerPage,   \* GroupedInputComponent.rowsPerPage
    currentShard,  \* GroupedInputComponent.currentShard (Undefined: none)
    inFlight,      \* component calls suspended at `await getShard(shardId)`
    lifecycle,     \* "constructed" until ngOnInit has run, then "initialized"
    shardedInputGroups  \* GroupedInputComponent.shardedInputGroups

dataVars == <<groups, shardSize>>
workerVars == <<workerQueue, handled, posted>>
storeVars == <<store, addLog, got, ingest>>
ctlVars == <<currentPage, rowsPerPage, currentShard, inFlight, lifecycle,
            shardedInputGroups>>
vars == <<dataVars, workerVars, storeVars, ctlVars>>

\* ------------------------------------------------------------------ bounds

\* Largest number of groups in a generated dataset.
MaxGroups == 2
\* Largest total number of rows in a generated dataset.
MaxTotalRows == 3
\* Row ids of generated datasets are drawn from 1 .. MaxId (repeats allowed).
MaxId == 3
\* Shard sizes of generated datasets are drawn from 1 .. MaxShardSize.
MaxShardSize == 3

\* Largest number of addShard calls in a run of the gateway.
MaxAdds == 2
\* nextPage is not called once currentPage has reached MaxPage.
MaxPage == 101
\* Largest number of calls of the component pending at once when calls
\* overlap.
MaxPending == 2

\* ------------------------------------------------------ program constants

\* shardedInputGroups = { totalRows: 0, shardSize: 1000, shards: [] }
ComponentShardSize == 1000
\* rowsPerPage: number = 10
DefaultRowsPerPage == 10
\* <option *ngFor="let n of [10, 15, 20]">
RowsPerPageOptions == {10, 15, 20}

\* ------------------------------------------------------------- JS helpers

\* The value undefined.
Undefined == [undefined |-> TRUE]

Min(a, b) == IF a <= b THEN a ELSE b
Max(a, b) == IF a >= b THEN a ELSE b

\* Array.prototype.slice(start, end): negative indices count from the end,
\* both are clamped to the array, and an empty range gives [].
Slice(arr, start, end) ==
    LET len  == Len(arr)
        from == IF start < 0 THEN Max(len + start, 0) ELSE Min(start, len)
        to   == IF end < 0 THEN Max(len + end, 0) ELSE Min(end, len)
    IN  IF to <= from THEN <<>> ELSE SubSeq(arr, from + 1, to)

\* Mutant of MathCeilDiv: Math.floor written for Math.ceil.
MathCeilDiv_Floor(a, b) == a \div b

\* Math.ceil(a / b) for integers a >= 0, b >= 1.
MathCeilDiv(a, b) == IF a % b = 0 THEN a \div b ELSE (a \div b) + 1

\* Math.floor(a / b) for integers a >= 0, b >= 1.
MathFloorDiv(a, b) == a \div b

\* Mutant of FlattenRows: reduce without its initial value, so that the first
\* group is taken as the accumulator and its rows are not spread.
RECURSIVE FlattenRows_NoInit(_)
FlattenRows_NoInit(gs) ==
    IF Len(gs) <= 1 THEN <<>>
    ELSE FlattenRows_NoInit(SubSeq(gs, 1, Len(gs) - 1)) \o gs[Len(gs)].rows

\* groups.reduce((acc, group) => [...acc, ...group.rows], [])
RECURSIVE FlattenRows(_)
FlattenRows(gs) ==
    IF gs = <<>> THEN <<>>
    ELSE FlattenRows(SubSeq(gs, 1, Len(gs) - 1)) \o gs[Len(gs)].rows

\* group.rows.some(gRow => gRow.id === row.id)
SomeRowHasId(groupRows, row) ==
    \E i \in DOMAIN groupRows : groupRows[i].id = row.id

\* .filter(group => group.rows.length > 0)
NonEmptyGroup(g) == Len(g.rows) > 0

\* Mutant of ShardGroups: the filter keeps groups of length >= 0.
ShardGroups_KeepEmpty(shardRows, gs) ==
    [i \in 1..Len(gs) |->
       [groupName |-> gs[i].groupName,
        rows |-> SelectSeq(shardRows,
                   LAMBDA row : SomeRowHasId(gs[i].rows, row))]]

\* groups.map(group => ({groupName, rows: shardRows.filter(...)}))
\*       .filter(group => group.rows.length > 0)
ShardGroups(shardRows, gs) ==
    LET mapped == [i \in 1..Len(gs) |->
                     [groupName |-> gs[i].groupName,
                      rows |-> SelectSeq(shardRows,
                                 LAMBDA row : SomeRowHasId(gs[i].rows, row))]]
    IN  SelectSeq(mapped, NonEmptyGroup)

\* ------------------------------------------------- worker: pure functions

\* Mutant of shardData: the window starts one row late.
shardData_LateStart(gs, size) ==
    LET rows == FlattenRows(gs)
    IN  [n \in 1..MathCeilDiv(Len(rows), size) |->
           [shardId |-> n - 1,
            groups |-> ShardGroups(
                         Slice(rows, (n - 1) * size + 1, (n - 1) * size + size),
                         gs)]]

\* Mutant of shardData: the window ends one row late, so windows overlap.
shardData_LateEnd(gs, size) ==
    LET rows == FlattenRows(gs)
    IN  [n \in 1..MathCeilDiv(Len(rows), size) |->
           [shardId |-> n - 1,
            groups |-> ShardGroups(
                         Slice(rows, (n - 1) * size, (n - 1) * size + size + 1),
                         gs)]]

\* function shardData(groups, shardSize)
shardData(gs, size) ==
    LET rows           == FlattenRows(gs)
        totalRows      == Len(rows)
        numberOfShards == MathCeilDiv(totalRows, size)
    IN  [n \in 1..numberOfShards |->
           LET shardId   == n - 1
               start     == shardId * size
               end       == start + size
               shardRows == Slice(rows, start, end)
           IN  [shardId |-> shardId, groups |-> ShardGroups(shardRows, gs)]]

\* Mutant of getShard: the window is taken as slice(start, shardSize).
getShard_EndIsSize(shardId, size, gs) ==
    LET start == shardId * size
        rows  == Slice(FlattenRows(gs), start, size)
    IN  [shardId |-> shardId, groups |-> ShardGroups(rows, gs)]

\* Mutant of getShard: the empty groups are not filtered out.
getShard_NoFilter(shardId, size, gs) ==
    LET start == shardId * size
        rows  == Slice(FlattenRows(gs), start, start + size)
    IN  [shardId |-> shardId,
         groups |-> [i \in 1..Len(gs) |->
                       [groupName |-> gs[i].groupName,
                        rows |-> SelectSeq(rows,
                                   LAMBDA row : SomeRowHasId(gs[i].rows, row))]]]

\* function getShard(shardId, shardSize, groups)
getShard(shardId, size, gs) ==
    LET start == shardId * size
        end   == start + size
        rows  == Slice(FlattenRows(gs), start, end)
    IN  [shardId |-> shardId, groups |-> ShardGroups(rows, gs)]

\* ---------------------------------------------------------------- datasets

RECURSIVE SumTo(_, _)
SumTo(f, n) == IF n = 0 THEN 0 ELSE SumTo(f, n - 1) + f[n]

\* Row counts per group: at most MaxGroups groups, at most MaxTotalRows rows.
Shapes ==
    {c \in UNION {[1..g -> 0..MaxTotalRows] : g \in 0..MaxGroups} :
        SumTo(c, Len(c)) <= MaxTotalRows}

\* The dataset with c[i] rows in group i; the row at flattened position p has
\* id ids[p]. Names are distinct, so that rows with equal ids stay different
\* objects.
MakeGroups(c, ids) ==
    [i \in 1..Len(c) |->
       [groupName |-> <<"group", i>>,
        rows |-> [j \in 1..c[i] |->
                    LET p == SumTo(c, i - 1) + j
                    IN  [id |-> ids[p], vmName |-> <<"vm", p>>]]]]

Datasets ==
    UNION {{MakeGroups(c, ids) : ids \in [1..SumTo(c, Len(c)) -> 1..MaxId]} :
             c \in Shapes}

ShardSizes == 1..MaxShardSize

\* Scenario A of the specification: row counts {4, 3, 5}, ids 1..12, shardSize 5.
ScenarioA ==
    [groups |-> MakeGroups(<<4, 3, 5>>, [p \in 1..12 |-> p]), shardSize |-> 5]

\* Shard ids a caller asks for: every in-range id of every generated dataset,
\* at least one id beyond the range, and negative ids (slice counts those
\* from the end).
ShardIds == (-MaxTotalRows)..MaxTotalRows

\* ------------------------------------------------------ worker: listener

NoMsg == [action |-> "none"]

Messages(gs, size) ==
    {[action |-> "shardData", payload |-> [groups |-> gs, shardSize |-> size]]}
    \cup {[action |-> "getShard",
           payload |-> [shardId |-> k, shardSize |-> size, groups |-> gs]] :
            k \in ShardIds}
    \cup {[action |-> "reindex", payload |-> [groups |-> gs, shardSize |-> size]]}

\* Mutant of SwitchResult: the 'getShard' case has lost its break and falls
\* through to the default.
SwitchResult_FallThrough(data) ==
    CASE data.action = "shardData" ->
           [is |-> "array",
            value |-> shardData(data.payload.groups, data.payload.shardSize)]
      [] OTHER -> [is |-> "error", value |-> [error |-> "Unknown action"]]

\* The value of `result` after the switch. A posted value carries its JS shape:
\* an array of shards, one shard object, or an error object.
SwitchResult(data) ==
    CASE data.action = "shardData" ->
           [is |-> "array",
            value |-> shardData(data.payload.groups, data.payload.shardSize)]
      [] data.action = "getShard" ->
           [is |-> "shard",
            value |-> getShard(data.payload.shardId, data.payload.shardSize,
                               data.payload.groups)]
      [] OTHER -> [is |-> "error", value |-> [error |-> "Unknown action"]]

\* worker.postMessage({action, payload}) by a caller that waits for the reply
\* to its previous request before posting the next.
PostToWorker ==
    /\ workerQueue = <<>>
    /\ \E m \in Messages(groups, shardSize) :
         workerQueue' = <<m>>
    /\ handled' = NoMsg
    /\ posted' = <<>>
    /\ UNCHANGED <<dataVars, storeVars, ctlVars>>

\* addEventListener('message', ({data}) => { switch ...; postMessage(result) })
OnMessage ==
    /\ workerQueue # <<>>
    /\ LET data == Head(workerQueue)
       IN  /\ handled' = data
           /\ posted' = Append(posted, SwitchResult(data))
    /\ workerQueue' = Tail(workerQueue)
    /\ UNCHANGED <<dataVars, storeVars, ctlVars>>

\* The worker before any message.
WorkerIdle ==
    /\ workerQueue = <<>>
    /\ handled = NoMsg
    /\ posted = <<>>

\* No getShard call has returned since the last addShard.
NoResult == <<>>

\* DataStorageService.shardData has not been called.
NotIngesting == [pc |-> "idle"]

\* The gateway on a database that upgrade() has just created.
StoreEmpty ==
    /\ store = <<>>
    /\ addLog = <<>>
    /\ got = NoResult
    /\ ingest = NotIngesting

\* shardedInputGroups = { totalRows: 0, shardSize: 1000, shards: [] }
DefaultShardedInputGroups ==
    [totalRows |-> 0, shardSize |-> ComponentShardSize, shards |-> <<>>]

\* The component's field initialisers, shardedInputGroups apart.
ComponentFields ==
    /\ currentPage = 1
    /\ rowsPerPage = DefaultRowsPerPage
    /\ currentShard = Undefined
    /\ inFlight = <<>>
    /\ lifecycle = "constructed"

\* The component's field initialisers.
ComponentConstructed ==
    /\ ComponentFields
    /\ shardedInputGroups = DefaultShardedInputGroups

InitWorker ==
    /\ \/ /\ groups \in Datasets
          /\ shardSize \in ShardSizes
       \/ /\ groups = ScenarioA.groups
          /\ shardSize = ScenarioA.shardSize
    /\ WorkerIdle
    /\ StoreEmpty
    /\ ComponentConstructed

NextWorker == PostToWorker \/ OnMessage

SpecWorker == InitWorker /\ [][NextWorker]_vars

\* ------------------------------------------- DataStorageService: gateway

\* Mutant of DbPut: db.add written for db.put; add rejects a key that is
\* already stored and leaves the store as it was.
DbPut_Add(st, shard) ==
    IF shard.shardId \in DOMAIN st THEN st
    ELSE [k \in DOMAIN st \cup {shard.shardId} |->
            IF k = shard.shardId THEN shard ELSE st[k]]

\* db.put('input-shards', shard) on the store with keyPath 'shardId'
DbPut(st, shard) ==
    [k \in DOMAIN st \cup {shard.shardId} |->
       IF k = shard.shardId THEN shard ELSE st[k]]

\* db.get('input-shards', shardId): the stored value, or undefined
DbGet(st, shardId) == IF shardId \in DOMAIN st THEN st[shardId] ELSE Undefined

\* Shards a caller passes to addShard: the partitions of scenario A's dataset
\* with shardSize 5 and with shardSize 3, so that keys 0..2 come with two
\* different group lists and key 3 with one.
ShardsToAdd ==
    LET bySize(size) == {shardData(ScenarioA.groups, size)[n] :
                           n \in DOMAIN shardData(ScenarioA.groups, size)}
    IN  bySize(ScenarioA.shardSize) \cup bySize(3)

\* Keys a caller looks up: every key of ShardsToAdd and one never stored.
KeysToGet == 0..Cardinality({sh.shardId : sh \in ShardsToAdd})

\* async addShard(shard), awaited by its caller
AddShard(shard) ==
    /\ Len(addLog) < MaxAdds
    /\ store' = DbPut(store, shard)
    /\ addLog' = Append(addLog, shard)
    /\ got' = NoResult
    /\ UNCHANGED <<ingest, dataVars, workerVars, ctlVars>>

\* async getShard(shardId), awaited by its caller
GetShard(shardId) ==
    /\ got' = <<[key |-> shardId, value |-> DbGet(store, shardId)]>>
    /\ UNCHANGED <<store, addLog, ingest, dataVars, workerVars, ctlVars>>

AddSomeShard == \E shard \in ShardsToAdd : AddShard(shard)
GetSomeShard == \E shardId \in KeysToGet : GetShard(shardId)

InitStore ==
    /\ groups = ScenarioA.groups
    /\ shardSize = ScenarioA.shardSize
    /\ WorkerIdle
    /\ StoreEmpty
    /\ ComponentConstructed

NextStore == AddSomeShard \/ GetSomeShard

SpecStore == InitStore /\ [][NextStore]_vars

\* --------------------------------------- DataStorageService: shardData

\* The body of the for loop up to `const shard`: the shard built for shardId.
BuiltShard(gs, size, shardId) ==
    LET rows      == FlattenRows(gs)
        start     == shardId * size
        end       == start + size
        shardRows == Slice(rows, start, end)
    IN  [shardId |-> shardId, groups |-> ShardGroups(shardRows, gs)]

\* Mutant of LoopAt: the loop condition is shardId < numberOfShards - 1.
LoopAt_StopsEarly(shardId, numberOfShards) ==
    IF shardId < numberOfShards - 1
    THEN [pc |-> "addShard", shardId |-> shardId,
          numberOfShards |-> numberOfShards,
          shard |-> BuiltShard(groups, shardSize, shardId)]
    ELSE [pc |-> "done"]

\* for (...; shardId < numberOfShards; ...): the call with its loop variable at
\* shardId either builds the shard and is suspended at `await
\* this.addShard(shard)`, or leaves the loop and returns.
LoopAt(shardId, numberOfShards) ==
    IF shardId < numberOfShards
    THEN [pc |-> "addShard", shardId |-> shardId,
          numberOfShards |-> numberOfShards,
          shard |-> BuiltShard(groups, shardSize, shardId)]
    ELSE [pc |-> "done"]

\* async shardData(groups, shardSize), up to its first await or, without a
\* shard to store, to its end
ShardDataCall ==
    /\ ingest.pc = "idle"
    /\ LET rows           == FlattenRows(groups)
           totalRows      == Len(rows)
           numberOfShards == MathCeilDiv(totalRows, shardSize)
       IN  ingest' = LoopAt(0, numberOfShards)
    /\ UNCHANGED <<store, addLog, got>>
    /\ UNCHANGED <<dataVars, workerVars, ctlVars>>

\* addShard(shard) of the suspended call: db.put takes effect
AddShardPuts ==
    /\ ingest.pc = "addShard"
    /\ store' = DbPut(store, ingest.shard)
    /\ addLog' = Append(addLog, ingest.shard)
    /\ got' = NoResult
    /\ ingest' = [ingest EXCEPT !.pc = "awaited"]
    /\ UNCHANGED <<dataVars, workerVars, ctlVars>>

\* addShard's promise settles and the loop goes on with shardId++
ShardDataResumes ==
    /\ ingest.pc = "awaited"
    /\ ingest' = LoopAt(ingest.shardId + 1, ingest.numberOfShards)
    /\ UNCHANGED <<store, addLog, got>>
    /\ UNCHANGED <<dataVars, workerVars, ctlVars>>

\* The service on an empty store, about to ingest a dataset.
InitIngest ==
    /\ \/ /\ groups \in Datasets
          /\ shardSize \in ShardSizes
       \/ /\ groups = ScenarioA.groups
          /\ shardSize = ScenarioA.shardSize
    /\ WorkerIdle
    /\ StoreEmpty
    /\ ComponentConstructed

NextIngest ==
    \/ ShardDataCall
    \/ AddShardPuts
    \/ ShardDataResumes
    \/ GetSomeShard

\* One shardData call of the service, with getShard calls made at any time.
SpecIngest == InitIngest /\ [][NextIngest]_vars

\* ------------------------------------- GroupedInputComponent: controller

\* Mutant of NextPageShardId: the target is computed for the page after the
\* next one.
NextPageShardId_PageAhead ==
    MathFloorDiv((currentPage + 1) * rowsPerPage, shardedInputGroups.shardSize)

\* Math.floor((this.currentPage * this.rowsPerPage) / shardSize)
NextPageShardId ==
    MathFloorDiv(currentPage * rowsPerPage, shardedInputGroups.shardSize)

\* Mutant of PrevPageShardId: the page number is used as it is.
PrevPageShardId_OffByOne(page) ==
    MathFloorDiv(page * rowsPerPage, shardedInputGroups.shardSize)

\* Math.floor(((this.currentPage - 1) * this.rowsPerPage) / shardSize), read
\* after this.currentPage-- : `page` is the decremented currentPage.
PrevPageShardId(page) ==
    MathFloorDiv((page - 1) * rowsPerPage, shardedInputGroups.shardSize)

\* Mutant of DiffersFromCurrentShard: without a loaded shard nothing differs.
DiffersFromCurrentShard_LoadedOnly(shardId) ==
    currentShard # Undefined /\ currentShard.shardId # shardId

\* shardId !== this.currentShard?.shardId
DiffersFromCurrentShard(shardId) ==
    currentShard = Undefined \/ currentShard.shardId # shardId

\* loadShard(shardId) up to its await: getShard is called and the calling
\* method `op` is suspended until the promise settles.
Suspended(op, shardId) ==
    Append(inFlight, [op |-> op, shardId |-> shardId, at |-> "getShard"])

\* No call of the component is suspended: the caller awaits each call.
Awaited == inFlight = <<>>

\* initialize(), called by ngOnInit(): awaits loadShard(0)
InitializeCall ==
    /\ lifecycle = "constructed"
    /\ lifecycle' = "initialized"
    /\ inFlight' = Suspended("initialize", 0)
    /\ UNCHANGED <<currentPage, rowsPerPage, currentShard, shardedInputGroups>>
    /\ UNCHANGED <<dataVars, workerVars, storeVars>>

\* Mutant of NextPageCall: this.currentPage++ is written before the load.
NextPageCall_IncrementFirst ==
    /\ lifecycle = "initialized"
    /\ currentPage' = currentPage + 1
    /\ IF DiffersFromCurrentShard(NextPageShardId)
       THEN inFlight' = Suspended("nextPage", NextPageShardId)
       ELSE UNCHANGED inFlight
    /\ UNCHANGED <<rowsPerPage, currentShard, lifecycle, shardedInputGroups>>
    /\ UNCHANGED <<dataVars, workerVars, storeVars>>

\* async nextPage(), up to its await or, without a load, to its end
NextPageCall ==
    /\ lifecycle = "initialized"
    /\ IF DiffersFromCurrentShard(NextPageShardId)
       THEN /\ inFlight' = Suspended("nextPage", NextPageShardId)
            /\ UNCHANGED currentPage
       ELSE /\ currentPage' = currentPage + 1
            /\ UNCHANGED inFlight
    /\ UNCHANGED <<rowsPerPage, currentShard, lifecycle, shardedInputGroups>>
    /\ UNCHANGED <<dataVars, workerVars, storeVars>>

\* Mutant of PrevPageCall: the guard is written currentPage >= 1.
PrevPageCall_FromPageOne ==
    /\ lifecycle = "initialized"
    /\ IF currentPage >= 1
       THEN /\ currentPage' = currentPage - 1
            /\ IF DiffersFromCurrentShard(PrevPageShardId(currentPage - 1))
               THEN inFlight' =
                      Suspended("prevPage", PrevPageShardId(currentPage - 1))
               ELSE UNCHANGED inFlight
       ELSE UNCHANGED <<currentPage, inFlight>>
    /\ UNCHANGED <<rowsPerPage, currentShard, lifecycle, shardedInputGroups>>
    /\ UNCHANGED <<dataVars, workerVars, storeVars>>

\* async prevPage(), up to its await or, without a load, to its end
PrevPageCall ==
    /\ lifecycle = "initialized"
    /\ IF currentPage > 1
       THEN /\ currentPage' = currentPage - 1
            /\ IF DiffersFromCurrentShard(PrevPageShardId(currentPage - 1))
               THEN inFlight' =
                      Suspended("prevPage", PrevPageShardId(currentPage - 1))
               ELSE UNCHANGED inFlight
       ELSE UNCHANGED <<currentPage, inFlight>>
    /\ UNCHANGED <<rowsPerPage, currentShard, lifecycle, shardedInputGroups>>
    /\ UNCHANGED <<dataVars, workerVars, storeVars>>

\* Mutant of SetRowsPerPageCall: shard 0 is loaded only when it is not the
\* loaded shard.
SetRowsPerPageCall_LoadIfDiffers(rows) ==
    /\ lifecycle = "initialized"
    /\ rowsPerPage' = rows
    /\ currentPage' = 1
    /\ IF DiffersFromCurrentShard(0)
       THEN inFlight' = Append(inFlight, [op |-> "setRowsPerPage", shardId |-> 0,
                                          at |-> "getShard", rows |-> rows])
       ELSE UNCHANGED inFlight
    /\ UNCHANGED <<currentShard, lifecycle, shardedInputGroups>>
    /\ UNCHANGED <<dataVars, workerVars, storeVars>>

\* async setRowsPerPage(rows), up to its await; the suspended call keeps its
\* argument.
SetRowsPerPageCall(rows) ==
    /\ lifecycle = "initialized"
    /\ rowsPerPage' = rows
    /\ currentPage' = 1
    /\ inFlight' = Append(inFlight, [op |-> "setRowsPerPage", shardId |-> 0,
                                     at |-> "getShard", rows |-> rows])
    /\ UNCHANGED <<currentShard, lifecycle, shardedInputGroups>>
    /\ UNCHANGED <<dataVars, workerVars, storeVars>>

\* The suspended call at position i with its stage changed / removed.
Staged(i, stage) == [inFlight EXCEPT ![i].at = stage]
Without(i) == SubSeq(inFlight, 1, i - 1) \o SubSeq(inFlight, i + 1, Len(inFlight))

\* No continuation is queued as a microtask: a call that loadShard has just
\* resumed runs to its end before any other event is handled.
NoMicrotask == \A i \in DOMAIN inFlight : inFlight[i].at # "loadShard"

\* getShard's promise of suspended call i settles and loadShard resumes:
\* this.currentShard = (the value getShard resolved to)
LoadShardResumesAt(i) ==
    /\ NoMicrotask
    /\ inFlight[i].at = "getShard"
    /\ currentShard' = DbGet(store, inFlight[i].shardId)
    /\ inFlight' = Staged(i, "loadShard")
    /\ UNCHANGED <<currentPage, rowsPerPage, lifecycle, shardedInputGroups>>
    /\ UNCHANGED <<dataVars, workerVars, storeVars>>

\* The method that awaited loadShard resumes and runs to its end: nextPage
\* does this.currentPage++, the others have nothing left to do.
CallerResumesAt(i) ==
    /\ inFlight[i].at = "loadShard"
    /\ currentPage' = IF inFlight[i].op = "nextPage"
                      THEN currentPage + 1 ELSE currentPage
    /\ inFlight' = Without(i)
    /\ UNCHANGED <<rowsPerPage, currentShard, lifecycle, shardedInputGroups>>
    /\ UNCHANGED <<dataVars, workerVars, storeVars>>

\* --- the template

\* Mutant of VisibleRows: the rows of the current page's window of the group.
VisibleRows_PageWindow(group) ==
    Slice(group.rows, (currentPage - 1) * rowsPerPage, currentPage * rowsPerPage)

\* *ngFor="let row of group.rows.slice(0, rowsPerPage)"
VisibleRows(group) == Slice(group.rows, 0, rowsPerPage)

\* <div *ngIf="currentShard"> with one table per group of currentShard: what
\* the view shows, nothing while no shard is loaded.
Rendered ==
    IF currentShard = Undefined
    THEN <<>>
    ELSE [g \in DOMAIN currentShard.groups |->
            [groupName |-> currentShard.groups[g].groupName,
             rows |-> VisibleRows(currentShard.groups[g])]]

\* --- every call awaited by its caller before the next one is made

NgOnInit == InitializeCall

NextPage ==
    /\ Awaited
    /\ currentPage < MaxPage
    /\ NextPageCall

PrevPage == Awaited /\ PrevPageCall

SetRowsPerPage(rows) == Awaited /\ SetRowsPerPageCall(rows)

SetSomeRowsPerPage == \E rows \in RowsPerPageOptions : SetRowsPerPage(rows)

LoadShardResumes == inFlight # <<>> /\ LoadShardResumesAt(1)

CallerResumes == inFlight # <<>> /\ CallerResumesAt(1)

\* The dataset behind the component: groups of 12, 25 and 8 rows with ids
\* 1..45, ingested with shardSize 15, so that shards hold groups both longer
\* and shorter than a page.
PagingData ==
    [groups |-> MakeGroups(<<12, 25, 8>>, [p \in 1..45 |-> p]), shardSize |-> 15]

\* The shards an ingest of that dataset has stored.
IngestedShards == shardData(PagingData.groups, PagingData.shardSize)

\* shardedInputGroups as the host sets it for that dataset.
ConfiguredShardedInputGroups ==
    [totalRows |-> Len(FlattenRows(PagingData.groups)),
     shardSize |-> PagingData.shardSize,
     shards |-> <<>>]

\* The stores that hold any part of the ingested shards.
PartialStores ==
    {[k \in keys |-> IngestedShards[k + 1]] :
       keys \in SUBSET {n - 1 : n \in DOMAIN IngestedShards}}

\* The component, with shardedInputGroups as constructed or as set by the
\* host, on a store that holds any part of the ingested shards.
InitPaging ==
    /\ groups = PagingData.groups
    /\ shardSize = PagingData.shardSize
    /\ WorkerIdle
    /\ store \in PartialStores
    /\ addLog = <<>>
    /\ got = NoResult
    /\ ingest = NotIngesting
    /\ ComponentFields
    /\ shardedInputGroups \in
         {DefaultShardedInputGroups, ConfiguredShardedInputGroups}

NextPaging ==
    \/ NgOnInit
    \/ NextPage
    \/ PrevPage
    \/ SetSomeRowsPerPage
    \/ LoadShardResumes
    \/ CallerResumes

\* Every call of the component is awaited before the next one is made.
SpecPaging == InitPaging /\ [][NextPaging]_vars

\* --- calls made from the template's controls

\* <div *ngIf="currentShard"> holds the buttons and the select.
ControlsShown == currentShard # Undefined

\* Mutant of NextDisabled: > written for >=.
NextDisabled_Inclusive ==
    currentPage * rowsPerPage > shardedInputGroups.totalRows

\* [disabled]="currentPage * rowsPerPage >= shardedInputGroups.totalRows"
NextDisabled == currentPage * rowsPerPage >= shardedInputGroups.totalRows

\* [disabled]="currentPage === 1"
PrevDisabled == currentPage = 1

\* The values a host gives shardedInputGroups.totalRows and .shardSize.
HostSettings ==
    {[totalRows |-> t, shardSize |-> z, shards |-> <<>>] :
       t \in {1, 10, 29, 30, 45, 100}, z \in {1, 7, 15, 1000}}

\* nextPage and prevPage called only while their button is enabled, every
\* call awaited.
GuardedNextPage == Awaited /\ ~NextDisabled /\ NextPageCall

GuardedPrevPage == Awaited /\ ~PrevDisabled /\ PrevPageCall

InitGuarded ==
    /\ groups = PagingData.groups
    /\ shardSize = PagingData.shardSize
    /\ WorkerIdle
    /\ store \in PartialStores
    /\ addLog = <<>>
    /\ got = NoResult
    /\ ingest = NotIngesting
    /\ ComponentFields
    /\ shardedInputGroups \in {DefaultShardedInputGroups} \cup HostSettings

NextGuarded ==
    \/ NgOnInit
    \/ GuardedNextPage
    \/ GuardedPrevPage
    \/ SetSomeRowsPerPage
    \/ LoadShardResumes
    \/ CallerResumes

\* Every call awaited, nextPage and prevPage made as the buttons allow.
SpecGuarded == InitGuarded /\ [][NextGuarded]_vars

\* --- calls made while earlier calls are pending

\* A control is used while it is shown, between two events, with fewer than
\* MaxPending calls pending.
CanClick ==
    /\ ControlsShown
    /\ NoMicrotask
    /\ Len(inFlight) < MaxPending

ClickNext == CanClick /\ ~NextDisabled /\ NextPageCall

ClickPrevious == CanClick /\ ~PrevDisabled /\ PrevPageCall

ChangeRowsPerPage ==
    \E rows \in RowsPerPageOptions : CanClick /\ SetRowsPerPageCall(rows)

\* The pending getShard calls settle in any order.
SomeLoadShardResumes == \E i \in DOMAIN inFlight : LoadShardResumesAt(i)

SomeCallerResumes == \E i \in DOMAIN inFlight : CallerResumesAt(i)

InitOverlap ==
    /\ groups = PagingData.groups
    /\ shardSize = PagingData.shardSize
    /\ WorkerIdle
    /\ store \in PartialStores
    /\ addLog = <<>>
    /\ got = NoResult
    /\ ingest = NotIngesting
    /\ ComponentFields
    /\ shardedInputGroups = ConfiguredShardedInputGroups

NextOverlap ==
    \/ NgOnInit
    \/ ClickNext
    \/ ClickPrevious
    \/ ChangeRowsPerPage
    \/ SomeLoadShardResumes
    \/ SomeCallerResumes

\* The user works the controls while loads are pending.
SpecOverlap == InitOverlap /\ [][NextOverlap]_vars

\* ------------------- GroupedInputComponent backed by the worker (README)

\* shards.flatMap(shard => shard.groups)
RECURSIVE FlatMapGroups(_)
FlatMapGroups(shards) ==
    IF shards = <<>> THEN <<>>
    ELSE Head(shards).groups \o FlatMapGroups(Tail(shards))

\* @Input() inputData as the host binds it: the ingested dataset.
InputData ==
    [totalRows |-> Len(FlattenRows(PagingData.groups)),
     shardSize |-> PagingData.shardSize,
     shards |-> IngestedShards]

\* { action: 'shardData', payload: { groups, shardSize } }
ShardDataRequest(input) ==
    [action |-> "shardData",
     payload |-> [groups |-> FlatMapGroups(input.shards),
                  shardSize |-> input.shardSize]]

\* loadShard(shardId): { action: 'getShard', payload: { shardId, shardSize,
\* groups } }; inputData and shardedInputGroups are one object.
GetShardRequest(input, shardId) ==
    [action |-> "getShard",
     payload |-> [shardId |-> shardId, shardSize |-> input.shardSize,
                  groups |-> FlatMapGroups(input.shards)]]

\* initialize(): shardedInputGroups = inputData, then 'shardData' and, through
\* loadShard(0), 'getShard' are posted; nothing is waited for.
WorkerBackedInitialize ==
    LET input == IF shardedInputGroups = Undefined
                 THEN InputData ELSE shardedInputGroups
    IN  /\ shardedInputGroups' = input
        /\ workerQueue' = workerQueue \o
             <<ShardDataRequest(input), GetShardRequest(input, 0)>>
        /\ UNCHANGED <<handled, posted>>
        /\ UNCHANGED <<currentPage, rowsPerPage, currentShard, inFlight>>
        /\ UNCHANGED <<dataVars, storeVars>>

\* ngOnChanges at the first binding of inputData, before ngOnInit.
WorkerBackedNgOnChanges ==
    /\ lifecycle = "constructed"
    /\ lifecycle' = "bound"
    /\ WorkerBackedInitialize

\* ngOnInit with inputData set.
WorkerBackedNgOnInit ==
    /\ lifecycle \in {"constructed", "bound"}
    /\ lifecycle' = "initialized"
    /\ WorkerBackedInitialize

\* The requests nextPage, prevPage and setRowsPerPage leave in the queue.
Requested(shardId) ==
    Append(workerQueue, GetShardRequest(shardedInputGroups, shardId))

\* nextPage(): loadShard only posts, so the call runs to its end at once.
WorkerBackedNextPage ==
    /\ lifecycle = "initialized"
    /\ workerQueue' = IF DiffersFromCurrentShard(NextPageShardId)
                      THEN Requested(NextPageShardId) ELSE workerQueue
    /\ currentPage' = currentPage + 1
    /\ UNCHANGED <<handled, posted>>
    /\ UNCHANGED <<rowsPerPage, currentShard, inFlight, lifecycle,
                   shardedInputGroups>>
    /\ UNCHANGED <<dataVars, storeVars>>

\* prevPage()
WorkerBackedPrevPage ==
    /\ lifecycle = "initialized"
    /\ IF currentPage > 1
       THEN /\ currentPage' = currentPage - 1
            /\ workerQueue' =
                 IF DiffersFromCurrentShard(PrevPageShardId(currentPage - 1))
                 THEN Requested(PrevPageShardId(currentPage - 1))
                 ELSE workerQueue
       ELSE UNCHANGED <<currentPage, workerQueue>>
    /\ UNCHANGED <<handled, posted>>
    /\ UNCHANGED <<rowsPerPage, currentShard, inFlight, lifecycle,
                   shardedInputGroups>>
    /\ UNCHANGED <<dataVars, storeVars>>

\* setRowsPerPage(rows)
WorkerBackedSetRowsPerPage(rows) ==
    /\ lifecycle = "initialized"
    /\ rowsPerPage' = rows
    /\ currentPage' = 1
    /\ workerQueue' = Requested(0)
    /\ UNCHANGED <<handled, posted>>
    /\ UNCHANGED <<currentShard, inFlight, lifecycle, shardedInputGroups>>
    /\ UNCHANGED <<dataVars, storeVars>>

\* Mutant of OnWorkerReply: whatever is not an array becomes currentShard.
OnWorkerReply_NoShardIdTest ==
    /\ posted # <<>>
    /\ LET data == Head(posted)
       IN  IF data.is = "array"
           THEN /\ shardedInputGroups' =
                     [shardedInputGroups EXCEPT !.shards = data.value]
                /\ UNCHANGED currentShard
           ELSE /\ currentShard' = data.value
                /\ UNCHANGED shardedInputGroups
    /\ posted' = Tail(posted)
    /\ UNCHANGED <<workerQueue, handled>>
    /\ UNCHANGED <<currentPage, rowsPerPage, inFlight, lifecycle>>
    /\ UNCHANGED <<dataVars, storeVars>>

\* worker.onmessage = ({ data }) => { ... }: an object with a shardId becomes
\* currentShard, an array becomes shardedInputGroups.shards, anything else is
\* dropped.
OnWorkerReply ==
    /\ posted # <<>>
    /\ LET data == Head(posted)
       IN  IF data.is = "shard"
           THEN /\ currentShard' = data.value
                /\ UNCHANGED shardedInputGroups
           ELSE IF data.is = "array"
           THEN /\ shardedInputGroups' =
                     [shardedInputGroups EXCEPT !.shards = data.value]
                /\ UNCHANGED currentShard
           ELSE UNCHANGED <<currentShard, shardedInputGroups>>
    /\ posted' = Tail(posted)
    /\ UNCHANGED <<workerQueue, handled>>
    /\ UNCHANGED <<currentPage, rowsPerPage, inFlight, lifecycle>>
    /\ UNCHANGED <<dataVars, storeVars>>

\* A control is used while it is shown, with fewer than MaxPending requests
\* unanswered or undelivered.
CanClickWorkerBacked ==
    /\ ControlsShown
    /\ Len(workerQueue) + Len(posted) < MaxPending

WorkerBackedClickNext ==
    CanClickWorkerBacked /\ ~NextDisabled /\ WorkerBackedNextPage

WorkerBackedClickPrevious ==
    CanClickWorkerBacked /\ ~PrevDisabled /\ WorkerBackedPrevPage

WorkerBackedChangeRowsPerPage ==
    \E rows \in RowsPerPageOptions :
        CanClickWorkerBacked /\ WorkerBackedSetRowsPerPage(rows)

\* The component of the README as constructed: shardedInputGroups has no
\* initialiser, the worker has been created.
InitWorkerBacked ==
    /\ groups = PagingData.groups
    /\ shardSize = PagingData.shardSize
    /\ WorkerIdle
    /\ StoreEmpty
    /\ ComponentFields
    /\ shardedInputGroups = Undefined

NextWorkerBacked ==
    \/ WorkerBackedNgOnChanges
    \/ WorkerBackedNgOnInit
    \/ WorkerBackedClickNext
    \/ WorkerBackedClickPrevious
    \/ WorkerBackedChangeRowsPerPage
    \/ OnMessage
    \/ OnWorkerReply

\* The README's component and the worker.
SpecWorkerBacked == InitWorkerBacked /\ [][NextWorkerBacked]_vars

\* A request with an action the worker's switch has no case for, as a
\* component out of step with the worker script posts it.
PostUnknownAction ==
    /\ lifecycle = "initialized"
    /\ Len(workerQueue) + Len(posted) < MaxPending
    /\ workerQueue' = Append(workerQueue,
         [action |-> "reindex",
          payload |-> [groups |-> FlatMapGroups(shardedInputGroups.shards),
                       shardSize |-> shardedInputGroups.shardSize]])
    /\ UNCHANGED <<handled, posted>>
    /\ UNCHANGED <<dataVars, storeVars, ctlVars>>

NextWorkerBackedAnyReply == NextWorkerBacked \/ PostUnknownAction

\* The README's component with a worker that gets to answer every kind of
\* request, unknown ones too.
SpecWorkerBackedAnyReply == InitWorkerBacked /\ [][NextWorkerBackedAnyReply]_vars

\* ------------------------------------------------ properties of the worker

\* The flattened group-then-row sequence of the dataset, the ordering basis of
\* the partition (stated from the head, independently of the worker's reduce).
RECURSIVE Concatenated(_)
Concatenated(gs) ==
    IF gs = <<>> THEN <<>> ELSE Head(gs).rows \o Concatenated(Tail(gs))

InputRows == Concatenated(groups)

TotalRows == Len(InputRows)

\* ceil(TotalRows / shardSize), stated without division: the least number of
\* windows of shardSize rows that cover TotalRows rows.
NumberOfShards ==
    CHOOSE m \in 0..TotalRows :
        /\ m * shardSize >= TotalRows
        /\ \A j \in 0..(m - 1) : j * shardSize < TotalRows

\* Global row-id uniqueness, the precondition of the partitioner.
UniqueIds ==
    LET flat == InputRows
    IN  \A p, q \in DOMAIN flat : flat[p].id = flat[q].id => p = q

RepliedShardData == handled.action = "shardData" /\ Len(posted) = 1
RepliedGetShard == handled.action = "getShard" /\ Len(posted) = 1
Reply == posted[1].value

RECURSIVE RowCount(_)
RowCount(gs) == IF gs = <<>> THEN 0 ELSE Len(Head(gs).rows) + RowCount(Tail(gs))

RECURSIVE ShardsRowCount(_)
ShardsRowCount(shards) ==
    IF shards = <<>> THEN 0
    ELSE RowCount(Head(shards).groups) + ShardsRowCount(Tail(shards))

\* The places <<shard, group, row>> of a shard list at which `row` occurs.
Places(shards, row) ==
    {pl \in UNION {UNION {{<<k, g, j>> : j \in DOMAIN shards[k].groups[g].rows} :
                            g \in DOMAIN shards[k].groups} :
                     k \in DOMAIN shards} :
        shards[pl[1]].groups[pl[2]].rows[pl[3]] = row}

\* C1 (partition/locate equivalence): the reply to a getShard request whose
\* shardId is in 0 .. ceil(totalRows/shardSize)-1 equals element shardId of
\* shardData(groups, shardSize): same shardId, same groups and rows in the
\* same order. No uniqueness of row ids is assumed.
C1_LocateEqualsPartition ==
    ( /\ RepliedGetShard
      /\ handled.payload.shardId >= 0
      /\ handled.payload.shardId < NumberOfShards ) =>
        Reply = shardData(groups, shardSize)[handled.payload.shardId + 1]

\* C1 witness: a located shard other than the first whose window spans two
\* groups.
C1_Witness ==
    /\ RepliedGetShard
    /\ handled.payload.shardId >= 1
    /\ handled.payload.shardId < NumberOfShards
    /\ Len(Reply.groups) >= 2

\* C2 (window correctness): with unique row ids, shard k of the shardData
\* reply holds, its groups' rows concatenated, exactly the rows at flattened
\* positions [k*shardSize, min((k+1)*shardSize, totalRows)), in order, each
\* under the name of the group it came from, groups in source order; the last
\* shard is not padded. Scenario A splits as 4+1, 2+3, 2.
C2_WindowCorrectness ==
    (RepliedShardData /\ UniqueIds) =>
        LET flat == InputRows
            n    == Len(flat)
        IN  /\ \A k \in DOMAIN Reply :
                 LET lo == (k - 1) * shardSize
                     hi == Min(k * shardSize, n)
                     sg == Reply[k].groups
                 IN  /\ Concatenated(sg) = [i \in 1..(hi - lo) |-> flat[lo + i]]
                     /\ \A g \in DOMAIN sg :
                          \E i \in DOMAIN groups :
                              /\ groups[i].groupName = sg[g].groupName
                              /\ \A j \in DOMAIN sg[g].rows :
                                   \E r \in DOMAIN groups[i].rows :
                                       groups[i].rows[r] = sg[g].rows[j]
                     /\ \A g, h \in DOMAIN sg :
                          g < h => sg[g].groupName[2] < sg[h].groupName[2]
            /\ (groups = ScenarioA.groups /\ shardSize = ScenarioA.shardSize) =>
                 [k \in DOMAIN Reply |->
                    [g \in DOMAIN Reply[k].groups |->
                       <<Reply[k].groups[g].groupName[2],
                         Len(Reply[k].groups[g].rows)>>]]
                 = << << <<1, 4>>, <<2, 1>> >>,
                      << <<2, 2>>, <<3, 3>> >>,
                      << <<3, 2>> >> >>

\* C2 witness: scenario A has been partitioned.
C2_Witness ==
    /\ RepliedShardData
    /\ UniqueIds
    /\ groups = ScenarioA.groups
    /\ Len(Reply) = 3

\* C3 (row conservation): with unique row ids, every input row occurs at
\* exactly one place (one shard, one group, one position) of the shardData
\* reply, and the shards' row counts add up to the number of input rows.
C3_RowConservation ==
    (RepliedShardData /\ UniqueIds) =>
        LET flat == InputRows
        IN  /\ \A p \in DOMAIN flat : Cardinality(Places(Reply, flat[p])) = 1
            /\ ShardsRowCount(Reply) = Len(flat)

\* C3 witness: a partition into several shards, one of them cutting a group.
C3_Witness ==
    /\ RepliedShardData
    /\ UniqueIds
    /\ Len(Reply) >= 2
    /\ \E k, l \in DOMAIN Reply :
         /\ k # l
         /\ \E g \in DOMAIN Reply[k].groups, h \in DOMAIN Reply[l].groups :
              Reply[k].groups[g].groupName = Reply[l].groups[h].groupName

\* C4 (no empty group): no shard of a shardData reply and no getShard reply,
\* for any shardId and any input (empty input groups and repeated ids
\* included), holds a group with an empty row list.
C4_NoEmptyGroup ==
    /\ RepliedShardData =>
         \A k \in DOMAIN Reply :
             \A g \in DOMAIN Reply[k].groups : Len(Reply[k].groups[g].rows) > 0
    /\ RepliedGetShard =>
         \A g \in DOMAIN Reply.groups : Len(Reply.groups[g].rows) > 0

\* C4 witness: a shard was located, by a negative id, in a dataset one of
\* whose groups has no row in that shard's window, and the shard is not empty.
C4_Witness ==
    /\ RepliedGetShard
    /\ handled.payload.shardId < 0
    /\ Reply.groups # <<>>
    /\ Len(Reply.groups) < Len(groups)
    /\ \E i \in DOMAIN groups : groups[i].rows = <<>>

\* C5 (dense shard ids): shardData returns exactly ceil(totalRows/shardSize)
\* shards and the shard at position i (from 0) has shardId i; a dataset with
\* no rows gives the empty list.
C5_DenseShardIds ==
    RepliedShardData =>
        /\ Len(Reply) = NumberOfShards
        /\ \A k \in DOMAIN Reply : Reply[k].shardId = k - 1
        /\ (TotalRows = 0 => Reply = <<>>)

\* C5 witness: a partition whose last shard is shorter than shardSize.
C5_Witness ==
    /\ RepliedShardData
    /\ Len(Reply) >= 2
    /\ TotalRows % shardSize # 0

\* Every input row occurs in the first shard of the reply.
FirstShardHasAllRows ==
    LET flat == InputRows
    IN  \A p \in DOMAIN flat : Places(<<Reply[1]>>, flat[p]) # {}

\* C6 as stated (boundary): whenever shardSize > totalRows, shardData returns
\* exactly one shard, with shardId 0, holding all input rows.
C6_Original ==
    (RepliedShardData /\ shardSize > TotalRows) =>
        /\ Len(Reply) = 1
        /\ Reply[1].shardId = 0
        /\ FirstShardHasAllRows

\* C6 amended: whenever shardSize > totalRows and totalRows >= 1, shardData
\* returns exactly one shard, with shardId 0, holding all input rows.
C6_BoundaryNonEmpty ==
    (RepliedShardData /\ shardSize > TotalRows /\ TotalRows >= 1) =>
        /\ Len(Reply) = 1
        /\ Reply[1].shardId = 0
        /\ FirstShardHasAllRows

\* C6 witness: a dataset of two groups partitioned with a larger shardSize.
C6_Witness ==
    /\ RepliedShardData
    /\ shardSize > TotalRows
    /\ TotalRows >= 2
    /\ Len(Reply[1].groups) = 2

\* C7 (out-of-range lookup): getShard with shardId >= ceil(totalRows/shardSize)
\* replies the shard {shardId: the requested id, groups: []}, not an error.
C7_OutOfRangeLookup ==
    (RepliedGetShard /\ handled.payload.shardId >= NumberOfShards) =>
        posted[1] = [is |-> "shard",
                     value |-> [shardId |-> handled.payload.shardId,
                                groups |-> <<>>]]

\* C7 witness: a lookup beyond the last shard of a dataset that has rows.
C7_Witness ==
    /\ RepliedGetShard
    /\ TotalRows >= 1
    /\ handled.payload.shardId >= NumberOfShards
    /\ posted[1].is = "shard"

KnownActions == {"shardData", "getShard"}

\* C8 (worker protocol): a handled request has exactly one reply: the error
\* object {error: 'Unknown action'} for an action other than 'shardData' and
\* 'getShard', the shard list for 'shardData', a single shard for 'getShard';
\* nothing is posted before a request is handled, and a waiting request can
\* always be handled.
C8_WorkerProtocol ==
    /\ handled = NoMsg => posted = <<>>
    /\ handled # NoMsg =>
         /\ Len(posted) = 1
         /\ handled.action \notin KnownActions =>
              posted[1] = [is |-> "error", value |-> [error |-> "Unknown action"]]
         /\ handled.action = "shardData" =>
              /\ posted[1].is = "array"
              /\ posted[1].value = shardData(handled.payload.groups,
                                             handled.payload.shardSize)
         /\ handled.action = "getShard" =>
              /\ posted[1].is = "shard"
              /\ posted[1].value.shardId = handled.payload.shardId
              /\ DOMAIN posted[1].value = {"shardId", "groups"}
    /\ workerQueue # <<>> => ENABLED OnMessage

\* C8 witness: a request with an unknown action has been answered.
C8_Witness ==
    /\ handled # NoMsg
    /\ handled.action \notin KnownActions
    /\ Len(posted) = 1
    /\ workerQueue = <<>>

\* ----------------------------------------------- properties of the gateway

\* The positions of the addShard calls made for key k.
AddsFor(k) == {i \in DOMAIN addLog : addLog[i].shardId = k}

\* The shard of the most recent addShard call for key k, or undefined.
LatestAdded(k) ==
    IF AddsFor(k) = {} THEN Undefined
    ELSE addLog[CHOOSE i \in AddsFor(k) : \A j \in AddsFor(k) : j <= i]

\* C9 (gateway semantics): after any sequence of addShard calls getShard(k)
\* returns the shard of the most recent addShard whose shardId is k, and
\* undefined when there was none; addShard of the shard that was added last
\* leaves the store as it is, and addShard for key k changes no other key.
C9_GatewaySemantics ==
    /\ [](got # NoResult => got[1].value = LatestAdded(got[1].key))
    /\ [][\A shard \in ShardsToAdd :
            AddShard(shard) =>
              /\ \A k \in KeysToGet \ {shard.shardId} :
                   DbGet(store', k) = DbGet(store, k)
              /\ (addLog # <<>> /\ addLog[Len(addLog)] = shard) =>
                   store' = store]_vars

\* C9 witness: a key was overwritten with different groups and then read.
C9_Witness ==
    /\ Len(addLog) = 2
    /\ addLog[1].shardId = addLog[2].shardId
    /\ addLog[1] # addLog[2]
    /\ got # NoResult
    /\ got[1].key = addLog[2].shardId
    /\ got[1].value = addLog[2]

\* -------------------------------------------- properties of the controller

\* floor(currentPage * rowsPerPage / shardSize), stated without division.
TargetOfNextPage ==
    CHOOSE q \in 0..(currentPage * rowsPerPage) :
        /\ q * shardedInputGroups.shardSize <= currentPage * rowsPerPage
        /\ currentPage * rowsPerPage < (q + 1) * shardedInputGroups.shardSize

\* This step suspends one more call at getShard(shardId).
LoadIssued(shardId) ==
    /\ Len(inFlight') = Len(inFlight) + 1
    /\ inFlight'[Len(inFlight')].shardId = shardId
    /\ inFlight'[Len(inFlight')].at = "getShard"

NoLoadIssued == inFlight' = inFlight

\* C10 (nextPage reload condition): a nextPage call issues a load, of shard
\* floor(currentPage * rowsPerPage / shardSize) for the currentPage at call
\* time, if and only if that id differs from the loaded shard's shardId (no
\* loaded shard counts as differing); so with rowsPerPage = 10, shardSize =
\* 1000 and shard 0 loaded, the calls made at currentPage 1..99 (the first 99
\* from page 1) issue no load and the call at currentPage 100 loads shard 1.
C10_NextPageReload ==
    [][NextPage =>
         /\ IF currentShard = Undefined \/ currentShard.shardId # TargetOfNextPage
            THEN LoadIssued(TargetOfNextPage) /\ currentPage' = currentPage
            ELSE NoLoadIssued /\ currentPage' = currentPage + 1
         /\ ( /\ rowsPerPage = DefaultRowsPerPage
              /\ shardedInputGroups.shardSize = 1000
              /\ currentShard # Undefined
              /\ currentShard.shardId = 0 ) =>
              /\ currentPage <= 99 => NoLoadIssued /\ currentPage' = currentPage + 1
              /\ currentPage = 100 => LoadIssued(1)]_vars

\* C10 witness: the 100th nextPage call from page 1 with rowsPerPage 10 and
\* shard 0 loaded is suspended at getShard(1).
C10_Witness ==
    /\ rowsPerPage = 10
    /\ shardedInputGroups.shardSize = 1000
    /\ currentPage = 100
    /\ currentShard # Undefined
    /\ currentShard.shardId = 0
    /\ inFlight = <<[op |-> "nextPage", shardId |-> 1, at |-> "getShard"]>>

\* C11 (prevPage lower bound): a prevPage call made when currentPage <= 1
\* changes nothing (currentPage, rowsPerPage and currentShard stay, no load is
\* issued), and currentPage >= 1 holds in every state reached by initialize,
\* nextPage, prevPage and setRowsPerPage calls.
C11_PrevPageLowerBound ==
    /\ [](currentPage >= 1)
    /\ [][(PrevPage /\ currentPage <= 1) =>
            /\ UNCHANGED <<currentPage, rowsPerPage, currentShard>>
            /\ NoLoadIssued]_vars

\* C11 witness: back on page 1 with shard 0 loaded and a page size chosen by
\* the user, no call pending: the state in which prevPage takes its empty
\* branch.
C11_Witness ==
    /\ lifecycle = "initialized"
    /\ Awaited
    /\ currentPage = 1
    /\ rowsPerPage = 15
    /\ currentShard # Undefined
    /\ ENABLED (PrevPage /\ UNCHANGED vars)

\* What the store holds under a key, absent when it holds nothing there.
StoredAt(key) == IF key \in DOMAIN store THEN store[key] ELSE Undefined

\* C12 (setRowsPerPage resets): a setRowsPerPage(n) call sets rowsPerPage = n
\* and currentPage = 1 and issues the load of shard 0 in every state, also with
\* shard 0 loaded; when the call completes rowsPerPage = n, currentPage = 1 and
\* currentShard is what the store holds under key 0 (absent if nothing).
C12_SetRowsPerPageResets ==
    /\ [][\A n \in RowsPerPageOptions :
            SetRowsPerPage(n) =>
              /\ rowsPerPage' = n
              /\ currentPage' = 1
              /\ currentShard' = currentShard
              /\ LoadIssued(0)]_vars
    /\ [][(CallerResumes /\ Head(inFlight).op = "setRowsPerPage") =>
            /\ rowsPerPage' = Head(inFlight).rows
            /\ currentPage' = 1
            /\ currentShard' = StoredAt(0)
            /\ inFlight' = <<>>]_vars

\* C12 witness: setRowsPerPage(20), called with shard 0 already loaded,
\* has reset the page and waits for its load of shard 0.
C12_Witness ==
    /\ currentShard # Undefined
    /\ currentShard.shardId = 0
    /\ rowsPerPage = 20
    /\ currentPage = 1
    /\ inFlight = <<[op |-> "setRowsPerPage", shardId |-> 0,
                     at |-> "getShard", rows |-> 20]>>

\* The first n elements of a sequence, all of them when it has fewer.
FirstRows(rows, n) ==
    [j \in 1..(IF n <= Len(rows) THEN n ELSE Len(rows)) |-> rows[j]]

\* C13 (per-group rendering): with a shard loaded the view shows, for each
\* group of currentShard in order, the group's first min(rowsPerPage, row
\* count) rows; so a nextPage or prevPage call that issues no load leaves what
\* is shown unchanged.
C13_PerGroupRendering ==
    /\ [](currentShard # Undefined =>
            /\ Len(Rendered) = Len(currentShard.groups)
            /\ \A g \in DOMAIN currentShard.groups :
                 /\ Rendered[g].groupName = currentShard.groups[g].groupName
                 /\ Rendered[g].rows =
                      FirstRows(currentShard.groups[g].rows, rowsPerPage))
    /\ [][((NextPage \/ PrevPage) /\ NoLoadIssued) => Rendered' = Rendered]_vars

\* C13 witness: page 2 reached by a nextPage call that loaded nothing; shard 0
\* shows 10 of the 12 rows of its first group and all 3 rows of its second.
C13_Witness ==
    /\ Awaited
    /\ currentPage = 2
    /\ rowsPerPage = 10
    /\ currentShard # Undefined
    /\ currentShard.shardId = 0
    /\ Len(currentShard.groups[1].rows) = 12
    /\ Len(Rendered[1].rows) = 10
    /\ Len(Rendered[2].rows) = 3

\* floor((page - 1) * rowsPerPage / shardSize), stated without division: the
\* shard whose window holds the first row of the page.
ShardOfPage(page) ==
    CHOOSE q \in 0..((page - 1) * rowsPerPage) :
        /\ q * shardedInputGroups.shardSize <= (page - 1) * rowsPerPage
        /\ (page - 1) * rowsPerPage < (q + 1) * shardedInputGroups.shardSize

\* C14 (missing shard): a load of a shard id the store holds nothing for
\* completes with currentShard absent; no operation fails, every call made
\* afterwards can be made and every pending load completes; and while
\* currentShard is absent every nextPage call and every prevPage call with
\* currentPage > 1 issues a load of its target shard.
C14_MissingShard ==
    /\ [][(LoadShardResumes /\ Head(inFlight).shardId \notin DOMAIN store) =>
            currentShard' = Undefined]_vars
    /\ [](inFlight # <<>> => ENABLED (LoadShardResumes \/ CallerResumes))
    /\ []((lifecycle = "initialized" /\ Awaited /\ currentShard = Undefined) =>
            /\ ENABLED PrevPage
            /\ \A n \in RowsPerPageOptions : ENABLED SetRowsPerPage(n)
            /\ currentPage < MaxPage => ENABLED NextPage)
    /\ [][(NextPage /\ currentShard = Undefined) =>
            LoadIssued(ShardOfPage(currentPage + 1))]_vars
    /\ [][(PrevPage /\ currentShard = Undefined /\ currentPage > 1) =>
            LoadIssued(ShardOfPage(currentPage - 1))]_vars

\* C14 witness: the store holds nothing under key 0; the loads of initialize
\* and of the first nextPage call have completed with currentShard absent,
\* and the nextPage call made on page 2 has issued a load of shard 0 again.
C14_Witness ==
    /\ 0 \notin DOMAIN store
    /\ currentShard = Undefined
    /\ currentPage = 2
    /\ inFlight = <<[op |-> "nextPage", shardId |-> 0, at |-> "getShard"]>>

\* C16 (nextPage sequencing): within a nextPage call that needs a load, the
\* load completes and replaces currentShard while currentPage still has its
\* value of call time, and only then is currentPage incremented; every
\* nextPage call ends with currentPage increased by exactly 1, whatever
\* totalRows is (nothing stops the call at the last page); a prevPage call
\* with currentPage > 1 decrements first and issues its load, if any, for the
\* decremented page.
C16_NextPageSequencing ==
    /\ [][NextPage =>
            \/ NoLoadIssued /\ currentPage' = currentPage + 1
            \/ /\ Len(inFlight') = 1
               /\ inFlight'[1].op = "nextPage"
               /\ currentPage' = currentPage]_vars
    /\ [][(inFlight # <<>> /\ Head(inFlight).op = "nextPage") =>
            IF Head(inFlight).at = "getShard"
            THEN /\ currentPage' = currentPage
                 /\ currentShard' = StoredAt(Head(inFlight).shardId)
                 /\ inFlight' = <<[Head(inFlight) EXCEPT !.at = "loadShard"]>>
            ELSE /\ currentPage' = currentPage + 1
                 /\ currentShard' = currentShard
                 /\ currentShard = StoredAt(Head(inFlight).shardId)
                 /\ inFlight' = <<>>]_vars
    /\ []((lifecycle = "initialized" /\ Awaited /\ currentPage < MaxPage) =>
            ENABLED NextPage)
    /\ [][(PrevPage /\ currentPage > 1) =>
            /\ currentPage' = currentPage - 1
            /\ NoLoadIssued \/ LoadIssued(ShardOfPage(currentPage - 1))]_vars
    /\ [][(inFlight # <<>> /\ Head(inFlight).op = "prevPage") =>
            currentPage' = currentPage]_vars

\* C16 witness: the nextPage call made on page 5, past the last row of the
\* 45, has had its load of shard 3 completed (nothing is stored there) and
\* has not incremented currentPage yet.
C16_Witness ==
    /\ shardedInputGroups.totalRows = 45
    /\ rowsPerPage = 10
    /\ currentPage = 5
    /\ currentShard = Undefined
    /\ inFlight = <<[op |-> "nextPage", shardId |-> 3, at |-> "loadShard"]>>

\* C17 (shard tracks page): with no write to the store during navigation and
\* every call awaited before the next is made, between calls currentShard is
\* what the store holds under key floor((currentPage - 1) * rowsPerPage /
\* shardSize), absent if it holds nothing there.
C17_ShardTracksPage ==
    (lifecycle = "initialized" /\ Awaited) =>
        currentShard = StoredAt(ShardOfPage(currentPage))

\* C17 witness: between calls on page 4 of 10 rows, whose first row is row
\* 30 of shard 2 (shardSize 15), with shard 2 loaded.
C17_Witness ==
    /\ lifecycle = "initialized"
    /\ Awaited
    /\ rowsPerPage = 10
    /\ shardedInputGroups.shardSize = 15
    /\ currentPage = 4
    /\ currentShard # Undefined
    /\ currentShard.shardId = 2

\* C18 (overlapping calls converge): whenever nextPage, prevPage or
\* setRowsPerPage calls were started while earlier loads were pending, once
\* every pending load has resolved currentShard is what the store holds under
\* key floor((currentPage - 1) * rowsPerPage / shardSize).
C18_OverlapConverges ==
    (lifecycle = "initialized" /\ inFlight = <<>>) =>
        currentShard = StoredAt(ShardOfPage(currentPage))

\* ceil(totalRows / shardSize) of the component, stated without division.
ShardCount ==
    CHOOSE n \in 0..shardedInputGroups.totalRows :
        /\ n * shardedInputGroups.shardSize >= shardedInputGroups.totalRows
        /\ \A m \in 0..(n - 1) :
             m * shardedInputGroups.shardSize < shardedInputGroups.totalRows

\* C20 (boundary discipline): with totalRows >= 1 and shardSize >= 1, nextPage
\* called only when currentPage * rowsPerPage < totalRows, prevPage only when
\* currentPage # 1, and every call awaited, the first row of the current page
\* exists, (currentPage - 1) * rowsPerPage < totalRows, and every requested
\* shard id lies in 0 .. ceil(totalRows / shardSize) - 1.
C20_BoundaryDiscipline ==
    (shardedInputGroups.totalRows >= 1 /\ shardedInputGroups.shardSize >= 1) =>
        /\ (currentPage - 1) * rowsPerPage < shardedInputGroups.totalRows
        /\ \A i \in DOMAIN inFlight :
             inFlight[i].shardId \in 0..(ShardCount - 1)

\* C20 witness: 45 rows in shards of 15, pages of 10: the nextPage call made
\* on page 4 requests shard 2, the last one, and leads to the last page.
C20_Witness ==
    /\ shardedInputGroups.totalRows = 45
    /\ shardedInputGroups.shardSize = 15
    /\ rowsPerPage = 10
    /\ currentPage = 4
    /\ inFlight = <<[op |-> "nextPage", shardId |-> 2, at |-> "getShard"]>>

\* C15 (worker error replies are not installed): in the worker-backed
\* component a reply {error: ...} never becomes currentShard or
\* shardedInputGroups.shards, and receiving it leaves currentShard, the shard
\* list, currentPage and rowsPerPage unchanged.
C15_ErrorReplyDropped ==
    /\ [](lifecycle = "initialized" =>
            /\ currentShard = Undefined
                 \/ DOMAIN currentShard = {"shardId", "groups"}
            /\ \A k \in DOMAIN shardedInputGroups.shards :
                 DOMAIN shardedInputGroups.shards[k] = {"shardId", "groups"})
    /\ [][(posted # <<>> /\ Head(posted).is = "error" /\ posted' = Tail(posted)) =>
            UNCHANGED <<currentShard, shardedInputGroups, currentPage,
                        rowsPerPage>>]_vars

\* C15 witness: with shard 0 shown, the worker has answered a request it has
\* no case for and its {error: 'Unknown action'} is the next reply the
\* component receives.
C15_Witness ==
    /\ lifecycle = "initialized"
    /\ currentShard # Undefined
    /\ currentShard.shardId = 0
    /\ handled.action = "reindex"
    /\ posted = <<[is |-> "error", value |-> [error |-> "Unknown action"]]>>

\* C19 (worker-backed convergence): in the worker-backed component, after
\* initialize and any nextPage, prevPage and setRowsPerPage calls, once every
\* posted request has been answered and its reply delivered,
\* currentShard.shardId = floor((currentPage - 1) * rowsPerPage / shardSize).
C19_WorkerBackedConverges ==
    (lifecycle = "initialized" /\ workerQueue = <<>> /\ posted = <<>>) =>
        /\ currentShard # Undefined
        /\ currentShard.shardId = ShardOfPage(currentPage)

\* ------------------------------------------------ properties of the ingest

\* The partition of the dataset, as the worker's shardData function gives it.
Partition == shardData(groups, shardSize)

\* The store holds exactly the first k shards of the partition.
HoldsFirst(k) ==
    /\ DOMAIN store = 0..(k - 1)
    /\ \A i \in 0..(k - 1) : store[i] = Partition[i + 1]

\* C21 (ingest persistence): DataStorageService.shardData with shardSize >= 1
\* on an empty store upserts the shards one at a time in ascending shardId
\* order, each shard built only after the upserts before it have taken
\* effect; in every state the store holds exactly the shards 0 .. k-1 of the
\* partition for some k; and once the call has completed getShard(i) returns
\* the i-th shard of the partition for i < ceil(totalRows / shardSize) and
\* nothing for every other i.
C21_IngestPersistence ==
    /\ \E k \in 0..Len(Partition) : HoldsFirst(k)
    /\ Len(addLog) <= Len(Partition)
    /\ \A n \in DOMAIN addLog :
         addLog[n].shardId = n - 1 /\ addLog[n] = Partition[n]
    /\ ingest.pc = "addShard" =>
         /\ ingest.shard.shardId = ingest.shardId
         /\ HoldsFirst(ingest.shardId)
    /\ ingest.pc = "awaited" => HoldsFirst(ingest.shardId + 1)
    /\ ingest.pc = "done" =>
         /\ HoldsFirst(NumberOfShards)
         /\ got # NoResult =>
              got[1].value =
                IF got[1].key \in 0..(NumberOfShards - 1)
                THEN Partition[got[1].key + 1] ELSE Undefined

\* C21 witness: the ingest of scenario A's dataset (12 rows, shardSize 5) has
\* completed with shards 0, 1, 2 stored, and getShard(2) has returned the
\* third shard of the partition.
C21_Witness ==
    /\ groups = ScenarioA.groups
    /\ ingest.pc = "done"
    /\ DOMAIN store = 0..2
    /\ got = <<[key |-> 2, value |-> Partition[3]]>>

====
